---- MODULE Spec2Model ----
(***************************************************************************)
(* Orchid: a deployment orchestrator that brings an environment up or down *)
(* by running shell commands over SSH.                                     *)
(*                                                                         *)
(* Part I models internal/orchestrator (orchestrator.go, flag.go): the     *)
(* Orchestrator with BringUp / BringDown / monitorApps / rollback and the  *)
(* FlagManager.  Several Orchestrators, each with a FlagManager of its     *)
(* own, share one flag path on one file system.                            *)
(*                                                                         *)
(* Part II models the Orchestrator that runs an environment's sequence of  *)
(* typed steps (Up and its helpers).                                       *)
(*                                                                         *)
(* Part III models the client pool of the ssh package (Manager.GetClient,  *)
(* RealSSHFactory.GetClient) under callers that run concurrently.          *)
(***************************************************************************)
EXTENDS Integers, Sequences, FiniteSets, TLC

\* Number of applications in the environment's list.
NApps == 2
\* Number of BringUp / BringDown invocations on one orchestrator.
MaxCalls == 3
\* Longest step sequence of an environment.
MaxSteps == 3
\* Number of hosts of a step.
NHosts == 2
\* Longest step sequence of an environment whose steps may be malformed.
MaxCfgSteps == 2
\* calls of FlagManager.Acquire / Release made directly
MaxFlagCalls == 4
\* Goroutines that call GetClient on one pool (Part III).
NCallers == 2
\* GetClient calls made on the pool (Part III).
MaxGets == 4
Apps == 1..NApps
Orchs == {"o1", "o2"}
Nobody == "nobody"
\* A flag file left behind by a run that crashed.
Stale == "stale"

VARIABLES
    dryRun,        \* Orchestrator.dryRun
    flagLog,       \* history: <<manager, call, result>> of the direct calls of
                   \* FlagManager that have returned, in order
    osLock,        \* who holds the advisory lock on flagPath + ".lock"
    flagFile,      \* who created the file at flagPath (Nobody: no file)
    pc,            \* where the calling goroutine of each orchestrator is
    op,            \* the operation in progress: "up", "down" or "none"
    idx,           \* the loop index of the calling goroutine
    appStates,     \* Orchestrator.appStates
    monitorChan,   \* Orchestrator.monitorChan (capacity 1); an entry is TRUE
                   \* when a monitor of the call in progress sent it
    ctx,           \* the context of the call in progress is done
    mons,          \* the live monitorApps goroutines (Orchestrator.wg counts them)
    calls,         \* invocations left
    users,         \* the orchestrators in use
    result,        \* what the call in progress returns
    startLog,      \* history: apps marked started by the call, in order
    rbLog,         \* history: apps rollback reached, in order, with "stop issued"
    rbDomain,      \* history: apps marked started when rollback began
    issued,        \* history: the calling goroutine sent a command in this call
    published,     \* history: a monitor of this call sent on monitorChan
                   \* before the caller left its last select
    preDone,       \* history: the caller's context was done at the call
    downLog,       \* history: the apps BringDown's loop reached, in order,
                   \* with "stop issued"
    downErr        \* history: the first app of this BringDown whose stop
                   \* failed or whose check found it still running (0: none)

\* Part II
VARIABLES
    sequence,      \* env.Sequence: the type of each step
    stepHosts,     \* env.Sequence: the Hosts of each step
    strays,        \* goroutines still running after their fan-out returned
    options,       \* Orchestrator.options (DryRun is also Orchestrator.dryRun)
    upc,           \* where Up is
    stepIdx,       \* i of Up's loop
    hostIdx,       \* position in step.Hosts of isServiceRunning / performHealthCheck
    running,       \* what isServiceRunning returned
    fanKind,       \* the command of the goroutines in flight: stop, start or run
    workers,       \* the goroutine of each host: none, run, ok or fail
    rbIdx,         \* i of handleFailure's loop
    failedStep,    \* failedStepIndex + 1
    upResult,      \* what Up returns
    trace,         \* history: <<command, step, phase>> sent to some host, in order
    rbSteps,       \* history: the steps handleFailure called stopService for
    downSteps,     \* history: the steps Down called stopService for
    downCtx,       \* Down's ctx is done: OperationTimeout has passed
    upCtx,         \* Up's ctx is done: OperationTimeout has passed
    clients        \* Manager.clients: the hosts with a client in the pool

\* Part III
VARIABLES
    mu,            \* Manager.mu: the caller that holds it (0: free)
    getpc,         \* where each caller of GetClient is
    getHost,       \* the host each caller asks for (0: none)
    got,           \* what the caller's last GetClient returned: <<host, client>>
                   \* (client 0: an error; <<0, 0>>: nothing yet)
    dials,         \* history: the clients constructed for each host; the n-th
                   \* client of a host is client n
    dialFailed,    \* history: a construction for the host has failed
    getsLeft       \* GetClient calls left

orchVars == <<dryRun, flagLog, osLock, flagFile, pc, op, idx, appStates, monitorChan,
              ctx, mons, calls, users, result, startLog, rbLog, rbDomain,
              issued, published, preDone, downLog, downErr>>

\* What no call changes.
envVars == <<dryRun, flagLog>>

upVars == <<sequence, stepHosts, strays, options, upc, stepIdx, hostIdx, running, fanKind,
            workers, rbIdx, failedStep, upResult, trace, rbSteps, downSteps, downCtx,
            upCtx, clients>>

poolVars == <<mu, getpc, getHost, got, dials, dialFailed, getsLeft>>

vars == <<orchVars, upVars, poolVars>>

fsVars == <<osLock, flagFile>>
histVars == <<startLog, rbLog, rbDomain, issued, published, downLog, downErr>>

----------------------------------------------------------------------------
Range(s) == {s[i] : i \in 1..Len(s)}

\* The flag is held by o's FlagManager: lock held and flag file created by it.
Held(o) == osLock = o /\ flagFile = o

\* Orchestrator.mutex is held by a monitor for the whole of a tick.
MutexHeld(o) == \E i \in 1..Len(mons[o]) : mons[o][i].pc \in {"tick", "send"}

Started(o) == {a \in Apps : appStates[o][a]}

\* The context a monitor was spawned with is done once its call has
\* cancelled it, was cancelled from outside, or has returned (defer cancel()).
MonCtxDone(o, m) == ~m.cur \/ ctx[o]

\* The deferred calls of the call in progress are running or have run.
Leaving(o) == pc[o] \in {"rel_remove", "rel_unlock", "ret"}

NoWorkers == [h \in 1..NHosts |-> "none"]

\* The sequence Orchestrator before Up is called.
UpIdle ==
    /\ upc = "idle"
    /\ stepIdx = 0
    /\ hostIdx = 0
    /\ running = "unknown"
    /\ fanKind = "none"
    /\ workers = NoWorkers
    /\ rbIdx = 0
    /\ failedStep = 0
    /\ upResult = "none"
    /\ trace = <<>>
    /\ rbSteps = <<>>
    /\ downSteps = <<>>
    /\ downCtx = FALSE
    /\ upCtx = FALSE
    /\ clients = {}
    /\ strays = {}

\* No sequence Orchestrator is in use.
UpOff ==
    /\ sequence = <<>>
    /\ stepHosts = <<>>
    /\ options = [DryRun |-> FALSE, HandleDeps |-> FALSE, StopDeps |-> FALSE]
    /\ UpIdle

Callers == 1..NCallers

\* No caller uses the pool concurrently.
PoolOff ==
    /\ mu = 0
    /\ getpc = [c \in Callers |-> "idle"]
    /\ getHost = [c \in Callers |-> 0]
    /\ got = [c \in Callers |-> <<0, 0>>]
    /\ dials = [h \in 1..NHosts |-> 0]
    /\ dialFailed = [h \in 1..NHosts |-> FALSE]
    /\ getsLeft = 0

InitWith(us, n) ==
    /\ users = us
    /\ calls = n
    /\ dryRun \in [Orchs -> BOOLEAN]
    /\ flagLog = <<>>
    /\ \A o \in Orchs \ us : ~dryRun[o]
    /\ osLock = Nobody
    /\ flagFile \in {Nobody, Stale}
    /\ pc = [o \in Orchs |-> "idle"]
    /\ op = [o \in Orchs |-> "none"]
    /\ idx = [o \in Orchs |-> 0]
    /\ appStates = [o \in Orchs |-> [a \in Apps |-> FALSE]]
    /\ monitorChan = [o \in Orchs |-> <<>>]
    /\ ctx = [o \in Orchs |-> FALSE]
    /\ mons = [o \in Orchs |-> <<>>]
    /\ result = [o \in Orchs |-> "none"]
    /\ startLog = [o \in Orchs |-> <<>>]
    /\ rbLog = [o \in Orchs |-> <<>>]
    /\ rbDomain = [o \in Orchs |-> {}]
    /\ issued = [o \in Orchs |-> FALSE]
    /\ published = [o \in Orchs |-> FALSE]
    /\ preDone = [o \in Orchs |-> FALSE]
    /\ downLog = [o \in Orchs |-> <<>>]
    /\ downErr = [o \in Orchs |-> 0]

\* One orchestrator, as cmd/up and cmd/down build it.
Init == InitWith({"o1"}, MaxCalls) /\ UpOff /\ PoolOff

\* Two orchestrators on the same environment, and two operations between them.
InitTwo == InitWith(Orchs, Cardinality(Orchs)) /\ UpOff /\ PoolOff

----------------------------------------------------------------------------
\* A call begins; pre: the caller's context is already cancelled.
Call(o, which, pre) ==
    /\ o \in users
    /\ pc[o] = "idle"
    /\ calls > 0
    /\ calls' = calls - 1
    /\ op' = [op EXCEPT ![o] = which]
    /\ ctx' = [ctx EXCEPT ![o] = pre]
    /\ idx' = [idx EXCEPT ![o] = IF which = "up" THEN 1 ELSE NApps]
    /\ pc' = [pc EXCEPT ![o] =
                IF ~dryRun[o] THEN "acq_lock"
                ELSE IF which = "up" THEN "spawn" ELSE "d_select"]
    /\ preDone' = [preDone EXCEPT ![o] = pre]
    /\ UNCHANGED <<poolVars, upVars, envVars, fsVars, appStates, monitorChan, mons, users,
                   result, histVars>>

BringUpCall(o) == \E pre \in BOOLEAN : Call(o, "up", pre)

BringDownCall(o) == \E pre \in BOOLEAN : Call(o, "down", pre)

\* The caller's context is cancelled while the call runs.
Cancel(o) ==
    /\ pc[o] \notin {"idle", "rel_remove", "rel_unlock", "ret"}
    /\ ~ctx[o]
    /\ ctx' = [ctx EXCEPT ![o] = TRUE]
    /\ UNCHANGED <<poolVars, upVars, envVars, preDone, fsVars, pc, op, idx, appStates, monitorChan, mons,
                   calls, users, result, histVars>>

\* The call has returned to its caller; what it leaves behind is the
\* orchestrator's fields and the goroutines still running.
Finish(o) ==
    /\ pc[o] = "ret"
    /\ pc' = [pc EXCEPT ![o] = "idle"]
    /\ op' = [op EXCEPT ![o] = "none"]
    /\ idx' = [idx EXCEPT ![o] = 0]
    /\ ctx' = [ctx EXCEPT ![o] = FALSE]
    /\ result' = [result EXCEPT ![o] = "none"]
    /\ mons' = [mons EXCEPT ![o] = [i \in 1..Len(@) |-> [@[i] EXCEPT !.cur = FALSE]]]
    /\ monitorChan' = [monitorChan EXCEPT ![o] = [i \in 1..Len(@) |-> FALSE]]
    /\ startLog' = [startLog EXCEPT ![o] = <<>>]
    /\ rbLog' = [rbLog EXCEPT ![o] = <<>>]
    /\ rbDomain' = [rbDomain EXCEPT ![o] = {}]
    /\ issued' = [issued EXCEPT ![o] = FALSE]
    /\ published' = [published EXCEPT ![o] = FALSE]
    /\ preDone' = [preDone EXCEPT ![o] = FALSE]
    /\ downLog' = [downLog EXCEPT ![o] = <<>>]
    /\ downErr' = [downErr EXCEPT ![o] = 0]
    /\ flagLog' = IF op[o] \in {"acquire", "release"}
                  THEN Append(flagLog, <<o, op[o], result[o]>>)
                  ELSE flagLog
    /\ UNCHANGED <<poolVars, upVars, dryRun, fsVars, appStates, calls, users>>

----------------------------------------------------------------------------
\* Acquire that goes on to create the flag file whatever TryLock answered.
AcquireTryLockIgnored(o) ==
    /\ pc[o] = "acq_lock"
    /\ osLock' = IF osLock = Nobody THEN o ELSE osLock
    /\ pc' = [pc EXCEPT ![o] = "acq_file"]
    /\ UNCHANGED <<poolVars, upVars, envVars, preDone, flagFile, op, idx, appStates, monitorChan, ctx,
                   mons, calls, users, result, histVars>>

\* FlagManager.Acquire, first half: flock.TryLock.
AcquireTryLock(o) ==
    /\ pc[o] = "acq_lock"
    /\ IF osLock \notin {Nobody, o}
       THEN /\ pc' = [pc EXCEPT ![o] = "ret"]
            /\ result' = [result EXCEPT ![o] = "contention"]
            /\ UNCHANGED osLock
       ELSE /\ osLock' = o
            /\ pc' = [pc EXCEPT ![o] = "acq_file"]
            /\ UNCHANGED result
    /\ UNCHANGED <<poolVars, upVars, envVars, preDone, flagFile, op, idx, appStates, monitorChan, ctx,
                   mons, calls, users, histVars>>

\* FlagManager.Acquire, second half: os.OpenFile(O_CREATE|O_EXCL).
AcquireCreate(o) ==
    /\ pc[o] = "acq_file"
    /\ IF flagFile # Nobody
       THEN /\ osLock' = IF osLock = o THEN Nobody ELSE osLock
            /\ pc' = [pc EXCEPT ![o] = "ret"]
            /\ result' = [result EXCEPT ![o] = "contention"]
            /\ UNCHANGED flagFile
       ELSE /\ flagFile' = o
            /\ pc' = [pc EXCEPT ![o] = CASE op[o] = "up" -> "spawn"
                                          [] op[o] = "down" -> "d_select"
                                          [] OTHER -> "ret"]
            /\ result' = [result EXCEPT ![o] = IF op[o] = "acquire" THEN "ok" ELSE @]
            /\ UNCHANGED osLock
    /\ UNCHANGED <<poolVars, upVars, envVars, preDone, op, idx, appStates, monitorChan, ctx,
                   mons, calls, users, histVars>>

\* Release that leaves the flag file where it is.
ReleaseRemoveSkipped(o) ==
    /\ pc[o] = "rel_remove"
    /\ pc' = [pc EXCEPT ![o] = "rel_unlock"]
    /\ UNCHANGED <<poolVars, upVars, envVars, preDone, fsVars, op, idx, appStates, monitorChan, ctx,
                   mons, calls, users, result, histVars>>

\* FlagManager.Release, first half: os.Remove(flagPath).
ReleaseRemove(o) ==
    /\ pc[o] = "rel_remove"
    /\ flagFile' = Nobody
    /\ pc' = [pc EXCEPT ![o] = "rel_unlock"]
    /\ UNCHANGED <<poolVars, upVars, envVars, preDone, osLock, op, idx, appStates, monitorChan, ctx,
                   mons, calls, users, result, histVars>>

\* Release that returns without unlocking.
ReleaseUnlockSkipped(o) ==
    /\ pc[o] = "rel_unlock"
    /\ pc' = [pc EXCEPT ![o] = "ret"]
    /\ UNCHANGED <<poolVars, upVars, envVars, preDone, fsVars, op, idx, appStates, monitorChan, ctx,
                   mons, calls, users, result, histVars>>

\* FlagManager.Release, second half: flock.Unlock; then the call returns.
ReleaseUnlock(o) ==
    /\ pc[o] = "rel_unlock"
    /\ osLock' = IF osLock = o THEN Nobody ELSE osLock
    /\ pc' = [pc EXCEPT ![o] = "ret"]
    /\ result' = [result EXCEPT ![o] = IF op[o] = "release" THEN "ok" ELSE @]
    /\ UNCHANGED <<poolVars, upVars, envVars, preDone, flagFile, op, idx, appStates, monitorChan, ctx,
                   mons, calls, users, histVars>>

----------------------------------------------------------------------------
\* FlagManager.Acquire and Release called directly, as flag_test.go does,
\* on a file system whose calls can fail.

\* The rest of the orchestrator stays as it is.
FlagFrame ==
    UNCHANGED <<poolVars, upVars, envVars, preDone, idx, appStates, monitorChan, ctx,
                mons, users, histVars>>

\* fm.Acquire() is called.
AcquireCall(o) ==
    /\ pc[o] = "idle"
    /\ calls > 0
    /\ calls' = calls - 1
    /\ op' = [op EXCEPT ![o] = "acquire"]
    /\ pc' = [pc EXCEPT ![o] = "acq_lock"]
    /\ UNCHANGED <<fsVars, result>>
    /\ FlagFrame

\* fm.Release() is called.
ReleaseCall(o) ==
    /\ pc[o] = "idle"
    /\ calls > 0
    /\ calls' = calls - 1
    /\ op' = [op EXCEPT ![o] = "release"]
    /\ pc' = [pc EXCEPT ![o] = "rel_remove"]
    /\ UNCHANGED <<fsVars, result>>
    /\ FlagFrame

\* A return of Acquire or Release with an error of the file system.
FlagError(o) ==
    /\ pc' = [pc EXCEPT ![o] = "ret"]
    /\ result' = [result EXCEPT ![o] = "error"]
    /\ UNCHANGED <<op, calls>>
    /\ FlagFrame

\* Acquire: TryLock returns an error.
AcquireTryLockErr(o) ==
    /\ pc[o] = "acq_lock"
    /\ osLock # o
    /\ UNCHANGED fsVars
    /\ FlagError(o)

\* Acquire: OpenFile fails with an error other than EEXIST; Unlock.
AcquireCreateErr(o) ==
    /\ pc[o] = "acq_file"
    /\ flagFile = Nobody
    /\ osLock' = IF osLock = o THEN Nobody ELSE osLock
    /\ UNCHANGED flagFile
    /\ FlagError(o)

\* Acquire with metadata: OpenFile has created the file, file.Write fails;
\* Unlock, and the file stays.
AcquireWriteErr(o) ==
    /\ pc[o] = "acq_file"
    /\ flagFile = Nobody
    /\ flagFile' = o
    /\ osLock' = IF osLock = o THEN Nobody ELSE osLock
    /\ FlagError(o)

\* Release: os.Remove fails with an error other than ENOENT; Release returns
\* before Unlock.
ReleaseRemoveErr(o) ==
    /\ pc[o] = "rel_remove"
    /\ flagFile # Nobody
    /\ UNCHANGED fsVars
    /\ FlagError(o)

\* Release: Unlock fails.
ReleaseUnlockErr(o) ==
    /\ pc[o] = "rel_unlock"
    /\ osLock = o
    /\ UNCHANGED fsVars
    /\ FlagError(o)

----------------------------------------------------------------------------
\* A return statement of BringUp / BringDown: BringUp's deferred cancel()
\* runs, then the deferred Release (no flag was taken in dry-run).
Return(o, res) ==
    /\ result' = [result EXCEPT ![o] = res]
    /\ pc' = [pc EXCEPT ![o] = IF dryRun[o] THEN "ret" ELSE "rel_remove"]
    /\ ctx' = [ctx EXCEPT ![o] = @ \/ op[o] = "up"]

\* o.cancelFunc(); o.wg.Wait(); return o.rollback() -- up to the Wait.
Abort(o) ==
    /\ ctx' = [ctx EXCEPT ![o] = TRUE]
    /\ pc' = [pc EXCEPT ![o] = "wait"]

\* The calling goroutine sends a command to a host.
MainCmd(o) == issued' = [issued EXCEPT ![o] = TRUE]

\* A client that runs the command in dry-run as well.
RunCommandForReal(o) == MainCmd(o)

\* Client.RunCommand called without looking at o.dryRun: the client of a
\* dry-run factory only logs the command.
RunCommand(o) == IF dryRun[o] THEN UNCHANGED issued ELSE MainCmd(o)

\* BringUp: context.WithCancel, go o.monitorApps(ctx).
Spawn(o) ==
    /\ pc[o] = "spawn"
    /\ mons' = [mons EXCEPT ![o] =
                  IF dryRun[o] THEN @
                  ELSE Append(@, [cur |-> TRUE, pc |-> "wait", seen |-> {}])]
    /\ pc' = [pc EXCEPT ![o] = "select"]
    /\ UNCHANGED <<poolVars, upVars, envVars, preDone, fsVars, op, idx, appStates, monitorChan, ctx,
                   calls, users, result, histVars>>

\* BringUp: the select at the top of the loop, ctx.Done() chosen.
SelectDone(o) ==
    /\ pc[o] = "select"
    /\ ctx[o]
    /\ Return(o, "canceled")
    /\ UNCHANGED <<poolVars, upVars, envVars, preDone, fsVars, op, idx, appStates, monitorChan, mons,
                   calls, users, histVars>>

\* BringUp: the select at the top of the loop, <-o.monitorChan chosen.
SelectMonitor(o) ==
    /\ pc[o] = "select"
    /\ monitorChan[o] # <<>>
    /\ monitorChan' = [monitorChan EXCEPT ![o] = Tail(@)]
    /\ Abort(o)
    /\ UNCHANGED <<poolVars, upVars, envVars, preDone, fsVars, op, idx, appStates, mons,
                   calls, users, result, histVars>>

\* BringUp: the select's default, then sshFactory.GetClient (ok or not).
SelectDefault(o) ==
    /\ pc[o] = "select"
    /\ ~ctx[o]
    /\ monitorChan[o] = <<>>
    /\ \/ /\ pc' = [pc EXCEPT ![o] = "precheck"]
          /\ UNCHANGED ctx
       \/ Abort(o)
    /\ UNCHANGED <<poolVars, upVars, envVars, preDone, fsVars, op, idx, appStates, monitorChan, mons,
                   calls, users, result, histVars>>

\* BringUp: the check command before the start (simulated failure in dry-run).
PreCheck(o) ==
    /\ pc[o] = "precheck"
    /\ IF dryRun[o]
       THEN /\ pc' = [pc EXCEPT ![o] = "start"]
            /\ UNCHANGED issued
       ELSE /\ MainCmd(o)
            /\ \E up \in BOOLEAN :
                 pc' = [pc EXCEPT ![o] = IF up THEN "prestop" ELSE "start"]
    /\ UNCHANGED <<poolVars, upVars, envVars, preDone, fsVars, op, idx, appStates, monitorChan, ctx, mons,
                   calls, users, result, startLog, rbLog, rbDomain, published, downLog, downErr>>

\* BringUp: the app is running, stop it before starting.
PreStop(o) ==
    /\ pc[o] = "prestop"
    /\ MainCmd(o)
    /\ \/ /\ pc' = [pc EXCEPT ![o] = "start"]
          /\ UNCHANGED ctx
       \/ Abort(o)
    /\ UNCHANGED <<poolVars, upVars, envVars, preDone, fsVars, op, idx, appStates, monitorChan, mons,
                   calls, users, result, startLog, rbLog, rbDomain, published, downLog, downErr>>

\* BringUp: the start command (logged only in dry-run).
StartApp(o) ==
    /\ pc[o] = "start"
    /\ IF dryRun[o]
       THEN /\ pc' = [pc EXCEPT ![o] = "mark"]
            /\ UNCHANGED <<issued, ctx>>
       ELSE /\ MainCmd(o)
            /\ \/ /\ pc' = [pc EXCEPT ![o] = "mark"]
                  /\ UNCHANGED ctx
               \/ Abort(o)
    /\ UNCHANGED <<poolVars, upVars, envVars, preDone, fsVars, op, idx, appStates, monitorChan, mons,
                   calls, users, result, startLog, rbLog, rbDomain, published, downLog, downErr>>

\* BringUp: o.appStates[app.Name] = true under o.mutex.
MarkStarted(o) ==
    /\ pc[o] = "mark"
    /\ ~MutexHeld(o)
    /\ appStates' = [appStates EXCEPT ![o][idx[o]] = TRUE]
    /\ startLog' = [startLog EXCEPT ![o] = Append(@, idx[o])]
    /\ pc' = [pc EXCEPT ![o] = "sleep"]
    /\ UNCHANGED <<poolVars, upVars, envVars, preDone, fsVars, op, idx, monitorChan, ctx, mons,
                   calls, users, result, rbLog, rbDomain, issued, published, downLog, downErr>>

\* BringUp: time.Sleep(CheckInterval).
Sleep(o) ==
    /\ pc[o] = "sleep"
    /\ pc' = [pc EXCEPT ![o] = "postcheck"]
    /\ UNCHANGED <<poolVars, upVars, envVars, preDone, fsVars, op, idx, appStates, monitorChan, ctx, mons,
                   calls, users, result, histVars>>

\* BringUp: the check command after the wait (assumed ok in dry-run).
PostCheck(o) ==
    /\ pc[o] = "postcheck"
    /\ LET next == /\ idx' = [idx EXCEPT ![o] = @ + 1]
                   /\ pc' = [pc EXCEPT ![o] =
                               IF idx[o] = NApps THEN "final" ELSE "select"]
                   /\ UNCHANGED ctx
       IN IF dryRun[o]
          THEN /\ next
               /\ UNCHANGED issued
          ELSE /\ MainCmd(o)
               /\ \/ next
                  \/ /\ Abort(o)
                     /\ UNCHANGED idx
    /\ UNCHANGED <<poolVars, upVars, envVars, preDone, fsVars, op, appStates, monitorChan, mons,
                   calls, users, result, startLog, rbLog, rbDomain, published, downLog, downErr>>

\* BringUp: after the loop, <-o.monitorChan chosen in the closing select.
FinalMonitor(o) ==
    /\ pc[o] = "final"
    /\ ~dryRun[o]
    /\ monitorChan[o] # <<>>
    /\ monitorChan' = [monitorChan EXCEPT ![o] = Tail(@)]
    /\ Abort(o)
    /\ UNCHANGED <<poolVars, upVars, envVars, preDone, fsVars, op, idx, appStates, mons,
                   calls, users, result, histVars>>

\* BringUp: the closing select times out (or is skipped in dry-run): success.
FinalOk(o) ==
    /\ pc[o] = "final"
    /\ dryRun[o] \/ monitorChan[o] = <<>>
    /\ Return(o, "ok")
    /\ UNCHANGED <<poolVars, upVars, envVars, preDone, fsVars, op, idx, appStates, monitorChan, mons,
                   calls, users, histVars>>

\* BringUp that goes from o.cancelFunc() to o.rollback() without o.wg.Wait().
WaitMonitorsSkipped(o) ==
    /\ pc[o] = "wait"
    /\ pc' = [pc EXCEPT ![o] = "rb"]
    /\ idx' = [idx EXCEPT ![o] = NApps]
    /\ rbDomain' = [rbDomain EXCEPT ![o] = Started(o)]
    /\ UNCHANGED <<poolVars, upVars, envVars, preDone, fsVars, op, appStates, monitorChan, ctx, mons,
                   calls, users, result, startLog, rbLog, issued, published, downLog, downErr>>

\* o.wg.Wait() returns once every monitor has exited; rollback() begins.
WaitMonitors(o) ==
    /\ pc[o] = "wait"
    /\ mons[o] = <<>>
    /\ pc' = [pc EXCEPT ![o] = "rb"]
    /\ idx' = [idx EXCEPT ![o] = NApps]
    /\ rbDomain' = [rbDomain EXCEPT ![o] = Started(o)]
    /\ UNCHANGED <<poolVars, upVars, envVars, preDone, fsVars, op, appStates, monitorChan, ctx, mons,
                   calls, users, result, startLog, rbLog, issued, published, downLog, downErr>>

\* rollback that gives up at the first GetClient error (break for continue).
rollbackBreak(o) ==
    /\ pc[o] = "rb"
    /\ idx[o] >= 1
    /\ ~MutexHeld(o)
    /\ IF ~appStates[o][idx[o]]
       THEN /\ idx' = [idx EXCEPT ![o] = @ - 1]
            /\ UNCHANGED <<appStates, rbLog, issued>>
       ELSE \/ /\ rbLog' = [rbLog EXCEPT ![o] = Append(@, <<idx[o], FALSE>>)]
               /\ idx' = [idx EXCEPT ![o] = 0]
               /\ UNCHANGED <<appStates, issued>>
            \/ /\ rbLog' = [rbLog EXCEPT ![o] = Append(@, <<idx[o], TRUE>>)]
               /\ idx' = [idx EXCEPT ![o] = @ - 1]
               /\ RunCommand(o)
               /\ appStates' = [appStates EXCEPT ![o][idx[o]] = FALSE]
    /\ UNCHANGED <<poolVars, upVars, envVars, preDone, fsVars, pc, op, monitorChan, ctx, mons,
                   calls, users, result, startLog, rbDomain, published, downLog, downErr>>

\* rollback: one iteration of the loop over the applications, last to first:
\* skip an app not started; on a GetClient error continue; else run the stop
\* command (its failure is logged only) and clear the app's state.
rollback(o) ==
    /\ pc[o] = "rb"
    /\ idx[o] >= 1
    /\ ~MutexHeld(o)
    /\ idx' = [idx EXCEPT ![o] = @ - 1]
    /\ IF ~appStates[o][idx[o]]
       THEN UNCHANGED <<appStates, rbLog, issued>>
       ELSE \/ /\ rbLog' = [rbLog EXCEPT ![o] = Append(@, <<idx[o], FALSE>>)]
               /\ UNCHANGED <<appStates, issued>>
            \/ /\ rbLog' = [rbLog EXCEPT ![o] = Append(@, <<idx[o], TRUE>>)]
               /\ RunCommand(o)
               /\ appStates' = [appStates EXCEPT ![o][idx[o]] = FALSE]
    /\ UNCHANGED <<poolVars, upVars, envVars, preDone, fsVars, pc, op, monitorChan, ctx, mons,
                   calls, users, result, startLog, rbDomain, published, downLog, downErr>>

\* rollback that returns nil when it had no trouble getting a client.
rollbackReturnNil(o) ==
    /\ pc[o] = "rb"
    /\ idx[o] = 0
    /\ Return(o, IF \A k \in 1..Len(rbLog[o]) : rbLog[o][k][2] THEN "ok" ELSE "rollback")
    /\ UNCHANGED <<poolVars, upVars, envVars, preDone, fsVars, op, idx, appStates, monitorChan, mons,
                   calls, users, histVars>>

\* rollback: the loop is over; it returns its error and so does BringUp.
rollbackReturn(o) ==
    /\ pc[o] = "rb"
    /\ idx[o] = 0
    /\ Return(o, "rollback")
    /\ UNCHANGED <<poolVars, upVars, envVars, preDone, fsVars, op, idx, appStates, monitorChan, mons,
                   calls, users, histVars>>

----------------------------------------------------------------------------
\* BringDown: the select at the top of the loop, ctx.Done() chosen.
DownSelectDone(o) ==
    /\ pc[o] = "d_select"
    /\ idx[o] >= 1
    /\ ctx[o]
    /\ Return(o, "canceled")
    /\ UNCHANGED <<poolVars, upVars, envVars, preDone, fsVars, op, idx, appStates, monitorChan, mons,
                   calls, users, histVars>>

\* BringDown: the select's default, then GetClient (on error: continue).
DownSelectDefault(o) ==
    /\ pc[o] = "d_select"
    /\ idx[o] >= 1
    /\ ~ctx[o]
    /\ \/ /\ pc' = [pc EXCEPT ![o] = "d_stop"]
          /\ UNCHANGED <<idx, downLog>>
       \/ /\ idx' = [idx EXCEPT ![o] = @ - 1]
          /\ downLog' = [downLog EXCEPT ![o] = Append(@, <<idx[o], FALSE>>)]
          /\ UNCHANGED pc
    /\ UNCHANGED <<poolVars, upVars, envVars, preDone, fsVars, op, appStates, monitorChan, ctx, mons,
                   calls, users, result, startLog, rbLog, rbDomain, issued, published,
                   downErr>>

\* A stop command whose failure ends BringDown with an error.
DownStopFatal(o) ==
    /\ pc[o] = "d_stop"
    /\ RunCommand(o)
    /\ downLog' = [downLog EXCEPT ![o] = Append(@, <<idx[o], TRUE>>)]
    /\ \E failed \in IF dryRun[o] THEN {FALSE} ELSE BOOLEAN :
         IF failed
         THEN /\ downErr' = [downErr EXCEPT ![o] = IF @ = 0 THEN idx[o] ELSE @]
              /\ Return(o, "failed")
         ELSE /\ pc' = [pc EXCEPT ![o] = "d_check"]
              /\ UNCHANGED <<downErr, result, ctx>>
    /\ UNCHANGED <<poolVars, upVars, envVars, preDone, fsVars, op, idx, appStates, monitorChan, mons,
                   calls, users, startLog, rbLog, rbDomain, published>>

\* BringDown: the stop command; its failure is logged only.
DownStop(o) ==
    /\ pc[o] = "d_stop"
    /\ RunCommand(o)
    /\ downLog' = [downLog EXCEPT ![o] = Append(@, <<idx[o], TRUE>>)]
    /\ \E failed \in IF dryRun[o] THEN {FALSE} ELSE BOOLEAN :
         downErr' = [downErr EXCEPT ![o] =
                       IF failed /\ @ = 0 THEN idx[o] ELSE @]
    /\ pc' = [pc EXCEPT ![o] = "d_check"]
    /\ UNCHANGED <<poolVars, upVars, envVars, preDone, fsVars, op, idx, appStates, monitorChan, ctx, mons,
                   calls, users, result, startLog, rbLog, rbDomain, published>>

\* BringDown: the check command; either outcome is logged only.
DownCheck(o) ==
    /\ pc[o] = "d_check"
    /\ RunCommand(o)
    /\ \E still \in IF dryRun[o] THEN {FALSE} ELSE BOOLEAN :
         downErr' = [downErr EXCEPT ![o] =
                       IF still /\ @ = 0 THEN idx[o] ELSE @]
    /\ pc' = [pc EXCEPT ![o] = "d_mark"]
    /\ UNCHANGED <<poolVars, upVars, envVars, preDone, fsVars, op, idx, appStates, monitorChan, ctx, mons,
                   calls, users, result, startLog, rbLog, rbDomain, published, downLog>>

\* BringDown: o.appStates[app.Name] = false under o.mutex.
DownMark(o) ==
    /\ pc[o] = "d_mark"
    /\ ~MutexHeld(o)
    /\ appStates' = [appStates EXCEPT ![o][idx[o]] = FALSE]
    /\ idx' = [idx EXCEPT ![o] = @ - 1]
    /\ pc' = [pc EXCEPT ![o] = "d_select"]
    /\ UNCHANGED <<poolVars, upVars, envVars, preDone, fsVars, op, monitorChan, ctx, mons,
                   calls, users, result, histVars>>

\* BringDown: the loop is over.
DownReturn(o) ==
    /\ pc[o] = "d_select"
    /\ idx[o] = 0
    /\ Return(o, "ok")
    /\ UNCHANGED <<poolVars, upVars, envVars, preDone, fsVars, op, idx, appStates, monitorChan, mons,
                   calls, users, histVars>>

----------------------------------------------------------------------------
RemoveAt(s, i) == [j \in 1..(Len(s) - 1) |-> IF j < i THEN s[j] ELSE s[j + 1]]

SetMon(o, i, m) == mons' = [mons EXCEPT ![o][i] = m]

\* monitorApps: the select, ctx.Done() chosen; the deferred wg.Done runs.
MonitorExit(o, i) ==
    /\ mons[o][i].pc = "wait"
    /\ MonCtxDone(o, mons[o][i])
    /\ mons' = [mons EXCEPT ![o] = RemoveAt(@, i)]
    /\ UNCHANGED <<poolVars, upVars, envVars, preDone, fsVars, pc, op, idx, appStates, monitorChan, ctx,
                   calls, users, result, histVars>>

\* monitorApps: the select, ticker.C chosen (when it is ready together with
\* ctx.Done(), select picks either).
MonitorTick(o, i) ==
    /\ mons[o][i].pc = "wait"
    /\ SetMon(o, i, [mons[o][i] EXCEPT !.pc = "lock"])
    /\ UNCHANGED <<poolVars, upVars, envVars, preDone, fsVars, pc, op, idx, appStates, monitorChan, ctx,
                   calls, users, result, histVars>>

\* monitorApps: o.mutex.Lock().
MonitorLock(o, i) ==
    /\ mons[o][i].pc = "lock"
    /\ ~MutexHeld(o)
    /\ SetMon(o, i, [mons[o][i] EXCEPT !.pc = "tick"])
    /\ UNCHANGED <<poolVars, upVars, envVars, preDone, fsVars, pc, op, idx, appStates, monitorChan, ctx,
                   calls, users, result, histVars>>

\* monitorApps: one started app of the range over o.appStates (map order):
\* GetClient fails, or the check command is run and fails, or it passes.
MonitorCheck(o, i) ==
    /\ mons[o][i].pc = "tick"
    /\ \E a \in Started(o) \ mons[o][i].seen :
         \/ SetMon(o, i, [mons[o][i] EXCEPT !.pc = "send", !.seen = {}])
         \/ SetMon(o, i, [mons[o][i] EXCEPT !.seen = @ \cup {a}])
    /\ UNCHANGED <<poolVars, upVars, envVars, preDone, fsVars, pc, op, idx, appStates, monitorChan, ctx,
                   calls, users, result, histVars>>

\* monitorApps: the range is over; o.mutex.Unlock() and back to the select.
MonitorTickDone(o, i) ==
    /\ mons[o][i].pc = "tick"
    /\ Started(o) \subseteq mons[o][i].seen
    /\ SetMon(o, i, [mons[o][i] EXCEPT !.pc = "wait", !.seen = {}])
    /\ UNCHANGED <<poolVars, upVars, envVars, preDone, fsVars, pc, op, idx, appStates, monitorChan, ctx,
                   calls, users, result, histVars>>

\* monitorApps: o.monitorChan <- err (blocks while the channel is full), then
\* o.mutex.Unlock() and return.
MonitorSend(o, i) ==
    /\ mons[o][i].pc = "send"
    /\ Len(monitorChan[o]) < 1
    /\ monitorChan' = [monitorChan EXCEPT ![o] = Append(@, mons[o][i].cur)]
    /\ published' = [published EXCEPT ![o] =
                       @ \/ (mons[o][i].cur /\ ~Leaving(o))]
    /\ mons' = [mons EXCEPT ![o] = RemoveAt(@, i)]
    /\ UNCHANGED <<poolVars, upVars, envVars, preDone, fsVars, pc, op, idx, appStates, ctx,
                   calls, users, result, startLog, rbLog, rbDomain, issued, downLog, downErr>>

monitorApps(o) ==
    \E i \in 1..Len(mons[o]) :
        \/ MonitorExit(o, i)
        \/ MonitorTick(o, i)
        \/ MonitorLock(o, i)
        \/ MonitorCheck(o, i)
        \/ MonitorTickDone(o, i)
        \/ MonitorSend(o, i)

----------------------------------------------------------------------------
Acquire(o) == AcquireTryLock(o) \/ AcquireCreate(o)

Release(o) == ReleaseRemove(o) \/ ReleaseUnlock(o)

BringUp(o) ==
    \/ Spawn(o) \/ SelectDone(o) \/ SelectMonitor(o) \/ SelectDefault(o)
    \/ PreCheck(o) \/ PreStop(o) \/ StartApp(o) \/ MarkStarted(o) \/ Sleep(o)
    \/ PostCheck(o) \/ FinalMonitor(o) \/ FinalOk(o)
    \/ WaitMonitors(o) \/ rollback(o) \/ rollbackReturn(o)

BringDown(o) ==
    \/ DownSelectDone(o) \/ DownSelectDefault(o) \/ DownStop(o)
    \/ DownCheck(o) \/ DownMark(o) \/ DownReturn(o)

Next ==
    \E o \in Orchs :
        \/ BringUpCall(o) \/ BringDownCall(o) \/ Cancel(o) \/ Finish(o)
        \/ Acquire(o) \/ Release(o)
        \/ BringUp(o) \/ BringDown(o)
        \/ monitorApps(o)

Spec == Init /\ [][Next]_vars

SpecTwo == InitTwo /\ [][Next]_vars

\* Two FlagManagers on the same flag path, called directly.
InitFlag ==
    /\ InitWith(Orchs, MaxFlagCalls)
    /\ \A o \in Orchs : ~dryRun[o]
    /\ UpOff
    /\ PoolOff

NextFlag ==
    \E o \in Orchs :
        \/ AcquireCall(o) \/ ReleaseCall(o) \/ Finish(o)
        \/ Acquire(o) \/ Release(o)
        \/ AcquireTryLockErr(o) \/ AcquireCreateErr(o) \/ AcquireWriteErr(o)
        \/ ReleaseRemoveErr(o) \/ ReleaseUnlockErr(o)

SpecFlag == InitFlag /\ [][NextFlag]_vars

\* The caller of the orchestrator calls Acquire on the FlagManager it has
\* given, or gives, to NewOrchestrator.
CallerAcquire(o) ==
    /\ o \in users
    /\ AcquireCall(o)

NextHeld == Next \/ \E o \in Orchs : CallerAcquire(o)

\* One orchestrator whose FlagManager its caller uses as well.
SpecHeld == Init /\ [][NextHeld]_vars

----------------------------------------------------------------------------
(***************************************************************************)
(* Part II: the Orchestrator of the step sequence (Up over env.Sequence,   *)
(* with handleUp, isServiceRunning, startService / stopService /           *)
(* handleCommand, performHealthCheck and handleFailure).  GetClient and    *)
(* Execute of the ssh package either succeed or fail; a timeout of the     *)
(* operation's context shows as an Execute that fails.                     *)
(***************************************************************************)

StepTypes == {"dependency", "application", "command"}
Hosts == 1..NHosts
Steps == 1..Len(sequence)

\* A name in step.Hosts that is no key of env.Hosts.
NoHost == 0

\* step.Hosts: every host of the environment; no host; a list whose last name
\* is not in env.Hosts.
AllHosts == [h \in Hosts |-> h]
LostHosts == [h \in Hosts |-> IF h = NHosts THEN NoHost ELSE h]
HostLists == {AllHosts, <<>>, LostHosts}

\* The loop over step.Hosts of a fan-out meets a name that is not in
\* env.Hosts (in dry-run the hosts are not looked at).
NotFound(i) ==
    /\ ~options.DryRun
    /\ \E k \in 1..Len(stepHosts[i]) : stepHosts[i][k] = NoHost

\* The goroutines a fan-out spawns for step i: one for each host of
\* step.Hosts that comes before the first name that is not in env.Hosts.
Launched(i) ==
    [h \in Hosts |->
        IF /\ ~options.DryRun
           /\ h <= Len(stepHosts[i])
           /\ \A k \in 1..h : stepHosts[i][k] # NoHost
        THEN "run" ELSE "none"]

InitUp ==
    /\ InitWith({}, 0)
    /\ flagFile = Nobody
    /\ sequence \in UNION {[1..n -> StepTypes] : n \in 0..MaxSteps}
    /\ stepHosts = [i \in 1..Len(sequence) |-> AllHosts]
    /\ options \in [DryRun : BOOLEAN, HandleDeps : BOOLEAN, StopDeps : BOOLEAN]
    /\ UpIdle
    /\ PoolOff

\* Up, lines 108-109: the steps Up health-checks after their handler.
HealthChecked(i) ==
    \/ sequence[i] = "application"
    \/ sequence[i] = "dependency" /\ options.HandleDeps

\* A command of the given kind went out to a host of step i.
Sent(kind, i, phase) ==
    trace' = IF trace # <<>> /\ trace[Len(trace)] = <<kind, i, phase>>
             THEN trace
             ELSE Append(trace, <<kind, i, phase>>)

\* Manager.GetClient has returned the client of host h, a new one or the one
\* of the pool, and Execute has sent a command through it.
SentBy(h, kind, i, phase) ==
    /\ Sent(kind, i, phase)
    /\ clients' = clients \cup {h}

\* Back at the top of Up's loop, at step i.
ToLoop(i) ==
    /\ upc' = "loop"
    /\ stepIdx' = i
    /\ hostIdx' = 0
    /\ running' = "unknown"
    /\ fanKind' = "none"
    /\ workers' = NoWorkers
    /\ UNCHANGED <<rbIdx, failedStep, upResult, rbSteps, downSteps, downCtx, upCtx>>

\* isServiceRunning is entered.
ToCheck ==
    /\ upc' = "check"
    /\ hostIdx' = 1
    /\ UNCHANGED <<stepIdx, running, fanKind, workers, rbIdx, failedStep,
                   upResult, rbSteps, downSteps, downCtx, upCtx>>

\* startService, stopService or handleCommand is entered from a step's
\* handler: in dry-run it returns nil at once, otherwise one goroutine per
\* host is spawned.
ToFan(kind) ==
    /\ upc' = "fan"
    /\ fanKind' = kind
    /\ workers' = Launched(stepIdx)
    /\ hostIdx' = 0
    /\ running' = "unknown"
    /\ UNCHANGED <<stepIdx, rbIdx, failedStep, upResult, rbSteps, downSteps, downCtx, upCtx>>

\* Up that logs the failure of a step and goes on to the next one.
FailGoesOn ==
    /\ upc' = "loop"
    /\ failedStep' = stepIdx
    /\ stepIdx' = stepIdx + 1
    /\ hostIdx' = 0
    /\ running' = "unknown"
    /\ fanKind' = "none"
    /\ workers' = NoWorkers
    /\ UNCHANGED <<rbIdx, upResult, rbSteps, downSteps, downCtx, upCtx>>

\* Up, lines 102-105 and 115-118: return o.handleFailure(ctx, env, i).
Fail ==
    /\ upc' = "rb"
    /\ failedStep' = stepIdx
    /\ rbIdx' = stepIdx - 1
    /\ hostIdx' = 0
    /\ running' = "unknown"
    /\ fanKind' = "none"
    /\ workers' = NoWorkers
    /\ UNCHANGED <<stepIdx, upResult, rbSteps, downSteps, downCtx, upCtx>>

\* Up, lines 108-120: the step's handler returned nil.
Handled ==
    IF HealthChecked(stepIdx) /\ ~options.DryRun
    THEN /\ upc' = "health"
         /\ hostIdx' = 1
         /\ running' = "unknown"
         /\ fanKind' = "none"
         /\ workers' = NoWorkers
         /\ UNCHANGED <<stepIdx, rbIdx, failedStep, upResult, rbSteps, downSteps, downCtx, upCtx>>
    ELSE ToLoop(stepIdx + 1)

UpCall ==
    /\ upc = "idle"
    /\ ToLoop(1)
    /\ UNCHANGED <<poolVars, orchVars, sequence, stepHosts, strays, options, trace, clients>>

\* Up, lines 85-100: the switch on step.Type (handleUp repeats it).
UpStep ==
    /\ upc = "loop"
    /\ stepIdx <= Len(sequence)
    /\ CASE sequence[stepIdx] = "command" -> ToFan("run")
         [] sequence[stepIdx] \in {"dependency", "application"} -> ToCheck
         [] OTHER -> Fail
    /\ UNCHANGED <<poolVars, orchVars, sequence, stepHosts, strays, options, trace, clients>>

\* Up, lines 122-123: every step is done.
UpReturn ==
    /\ upc = "loop"
    /\ stepIdx > Len(sequence)
    /\ upc' = "ret"
    /\ upResult' = "ok"
    /\ UNCHANGED <<poolVars, orchVars, sequence, stepHosts, strays, options, stepIdx, hostIdx, running,
                   fanKind, workers, rbIdx, failedStep, trace, clients, rbSteps, downSteps, downCtx, upCtx>>

\* isServiceRunning: true at once in dry-run; otherwise one host per step,
\* error if the host is not in env.Hosts or GetClient fails, false at the
\* first check that fails, true when the hosts are used up.
isServiceRunning ==
    /\ upc = "check"
    /\ IF options.DryRun
       THEN /\ running' = "yes"
            /\ upc' = "checked"
            /\ UNCHANGED <<hostIdx, trace, clients>>
       ELSE IF hostIdx > Len(stepHosts[stepIdx])
       THEN /\ running' = "yes"
            /\ upc' = "checked"
            /\ UNCHANGED <<hostIdx, trace, clients>>
       ELSE IF stepHosts[stepIdx][hostIdx] = NoHost
       THEN /\ running' = "err"
            /\ upc' = "checked"
            /\ UNCHANGED <<hostIdx, trace, clients>>
       ELSE \/ /\ hostIdx \notin clients
               /\ running' = "err"
               /\ upc' = "checked"
               /\ UNCHANGED <<hostIdx, trace, clients>>
            \/ /\ SentBy(hostIdx, "check", stepIdx, "up")
               /\ running' = "no"
               /\ upc' = "checked"
               /\ UNCHANGED hostIdx
            \/ /\ SentBy(hostIdx, "check", stepIdx, "up")
               /\ IF hostIdx = Len(stepHosts[stepIdx])
                  THEN running' = "yes" /\ upc' = "checked" /\ UNCHANGED hostIdx
                  ELSE hostIdx' = hostIdx + 1 /\ UNCHANGED <<running, upc>>
    /\ UNCHANGED <<poolVars, orchVars, sequence, stepHosts, strays, options, stepIdx, fanKind, workers,
                   rbIdx, failedStep, upResult, rbSteps, downSteps, downCtx, upCtx>>

\* handleApplicationUp after its isServiceRunning: a running application is
\* stopped, one that is not running is started.
handleApplicationUp ==
    /\ upc = "checked"
    /\ sequence[stepIdx] = "application"
    /\ CASE running = "err" -> Fail
         [] running = "yes" -> ToFan("stop")
         [] OTHER -> ToFan("start")
    /\ UNCHANGED <<poolVars, orchVars, sequence, stepHosts, strays, options, trace, clients>>

\* handleDependencyUp after its isServiceRunning.
handleDependencyUp ==
    /\ upc = "checked"
    /\ sequence[stepIdx] = "dependency"
    /\ options.HandleDeps
    /\ CASE running = "err" -> Fail
         [] running = "yes" -> ToFan("stop")
         [] OTHER -> ToFan("start")
    /\ UNCHANGED <<poolVars, orchVars, sequence, stepHosts, strays, options, trace, clients>>

\* verifyDependencyRunning after its isServiceRunning.
verifyDependencyRunning ==
    /\ upc = "checked"
    /\ sequence[stepIdx] = "dependency"
    /\ ~options.HandleDeps
    /\ IF running = "yes" THEN Handled ELSE Fail
    /\ UNCHANGED <<poolVars, orchVars, sequence, stepHosts, strays, options, trace, clients>>

\* The ctx that Up or Down hands to its handlers, and handleFailure to
\* stopService, is done.
CtxDone == IF upc = "d_fan" THEN downCtx ELSE upCtx

\* The goroutine startService, stopService and handleCommand spawn for a
\* host: GetClient, then Execute of the step's command.  Execute starts the
\* command and, when ctx is done, may return ctx.Err() after an interrupt
\* signal instead of the command's result ("cut").
serviceWorker(h) ==
    /\ upc \in {"fan", "rbfan", "d_fan"}
    /\ workers[h] = "run"
    /\ \/ /\ workers' = [workers EXCEPT ![h] = "fail"]
          /\ UNCHANGED <<trace, clients>>
       \/ /\ \E r \in {"ok", "fail"} \cup (IF CtxDone THEN {"cut"} ELSE {}) :
               workers' = [workers EXCEPT ![h] = r]
          /\ CASE upc = "fan" -> SentBy(h, fanKind, stepIdx, "up")
               [] upc = "rbfan" -> SentBy(h, fanKind, rbIdx, "rollback")
               [] OTHER -> SentBy(h, fanKind, stepIdx, "down")
    /\ UNCHANGED <<poolVars, orchVars, sequence, stepHosts, strays, options, upc, stepIdx, hostIdx,
                   running, fanKind, rbIdx, failedStep, upResult, rbSteps, downSteps, downCtx, upCtx>>

\* wg.Wait() has returned.
FanDone == \A h \in Hosts : workers[h] # "run"

\* errCh holds an error.
FanErr == \E h \in Hosts : workers[h] \in {"fail", "cut"}

\* startService, stopService or handleCommand returns to the step's handler:
\* handleDependencyUp starts the dependency it stopped, handleApplicationUp
\* returns nil after either.
serviceReturn ==
    /\ upc = "fan"
    /\ ~NotFound(stepIdx)
    /\ FanDone
    /\ IF FanErr THEN Fail
       ELSE IF fanKind = "stop" /\ sequence[stepIdx] = "dependency"
            THEN ToFan("start")
            ELSE Handled
    /\ UNCHANGED <<poolVars, orchVars, sequence, stepHosts, strays, options, trace, clients>>

\* performHealthCheck: one host per step, error at the first failure.
performHealthCheck ==
    /\ upc = "health"
    /\ IF hostIdx > Len(stepHosts[stepIdx])
       THEN ToLoop(stepIdx + 1) /\ UNCHANGED <<trace, clients>>
       ELSE IF stepHosts[stepIdx][hostIdx] = NoHost
       THEN Fail /\ UNCHANGED <<trace, clients>>
       ELSE
       \/ hostIdx \notin clients /\ Fail /\ UNCHANGED <<trace, clients>>
       \/ Fail /\ SentBy(hostIdx, "health", stepIdx, "up")
       \/ /\ SentBy(hostIdx, "health", stepIdx, "up")
          /\ IF hostIdx = Len(stepHosts[stepIdx])
             THEN ToLoop(stepIdx + 1)
             ELSE /\ hostIdx' = hostIdx + 1
                  /\ UNCHANGED <<upc, stepIdx, running, fanKind, workers,
                                 rbIdx, failedStep, upResult, rbSteps, downSteps, downCtx, upCtx>>
    /\ UNCHANGED <<poolVars, orchVars, sequence, stepHosts, strays, options>>

\* Up, lines 82-83: the deadline of context.WithTimeout passes while Up, or
\* the handleFailure it returns through, runs.
UpTimeout ==
    /\ upc \in {"loop", "check", "checked", "fan", "health", "rb", "rbfan"}
    /\ ~upCtx
    /\ upCtx' = TRUE
    /\ UNCHANGED <<poolVars, orchVars, sequence, stepHosts, strays, options, upc, stepIdx, hostIdx, running,
                   fanKind, workers, rbIdx, failedStep, upResult, trace, clients,
                   rbSteps, downSteps, downCtx>>

\* A handleFailure that treats the command steps like the others.
RolledBackAnyway(i) == TRUE

\* handleFailure, line 333: the steps handleFailure calls stopService for.
RolledBack(i) == sequence[i] # "command"

\* handleFailure: one iteration of the loop from failedStepIndex - 1 down,
\* skipping the command steps; after it, the error is returned.
handleFailure ==
    /\ upc = "rb"
    /\ IF rbIdx = 0
       THEN /\ upc' = "ret"
            /\ upResult' = "failed"
            /\ UNCHANGED <<rbIdx, fanKind, workers, rbSteps, downSteps, downCtx, upCtx>>
       ELSE IF ~RolledBack(rbIdx)
       THEN /\ rbIdx' = rbIdx - 1
            /\ UNCHANGED <<upc, upResult, fanKind, workers, rbSteps, downSteps, downCtx, upCtx>>
       ELSE /\ upc' = "rbfan"
            /\ fanKind' = "stop"
            /\ workers' = Launched(rbIdx)
            /\ rbSteps' = Append(rbSteps, rbIdx)
            /\ UNCHANGED <<rbIdx, upResult, downSteps, downCtx, upCtx>>
    /\ UNCHANGED <<poolVars, orchVars, sequence, stepHosts, strays, options, stepIdx, hostIdx, running,
                   failedStep, trace, clients>>

\* stopService returns to handleFailure, which goes on whatever it returned.
handleFailureNext ==
    /\ upc = "rbfan"
    /\ ~NotFound(rbIdx)
    /\ FanDone
    /\ upc' = "rb"
    /\ rbIdx' = rbIdx - 1
    /\ fanKind' = "none"
    /\ workers' = NoWorkers
    /\ UNCHANGED <<poolVars, orchVars, sequence, stepHosts, strays, options, stepIdx, hostIdx, running,
                   failedStep, upResult, trace, clients, rbSteps, downSteps, downCtx, upCtx>>

\* A Down that stops the dependencies whatever StopDeps says.
StoppableAnyway(i) == sequence[i] # "command"

\* Down, lines 152-161: the steps Down calls handleDown for.
Stoppable(i) ==
    \/ sequence[i] = "application"
    \/ sequence[i] = "dependency" /\ options.StopDeps

\* Down is called: its loop starts at the last step.
DownCall ==
    /\ upc = "idle"
    /\ upc' = "d_loop"
    /\ stepIdx' = Len(sequence)
    /\ UNCHANGED <<poolVars, orchVars, sequence, stepHosts, strays, options, hostIdx, running, fanKind,
                   workers, rbIdx, failedStep, upResult, trace, clients, rbSteps,
                   downSteps, downCtx, upCtx>>

\* Down: a dependency without StopDeps and a command step are skipped.
DownSkip ==
    /\ upc = "d_loop"
    /\ stepIdx >= 1
    /\ ~Stoppable(stepIdx)
    /\ stepIdx' = stepIdx - 1
    /\ UNCHANGED <<poolVars, orchVars, sequence, stepHosts, strays, options, upc, hostIdx, running,
                   fanKind, workers, rbIdx, failedStep, upResult, trace, clients,
                   rbSteps, downSteps, downCtx, upCtx>>

\* handleDown: handleApplicationDown or handleDependencyDown calls
\* stopService.
handleDown ==
    /\ upc = "d_loop"
    /\ stepIdx >= 1
    /\ Stoppable(stepIdx)
    /\ upc' = "d_fan"
    /\ fanKind' = "stop"
    /\ workers' = Launched(stepIdx)
    /\ downSteps' = Append(downSteps, stepIdx)
    /\ UNCHANGED <<poolVars, orchVars, sequence, stepHosts, strays, options, stepIdx, hostIdx, running,
                   rbIdx, failedStep, upResult, trace, clients, rbSteps, downCtx, upCtx>>

\* stopService returns to Down, which logs an error and goes on.
handleDownReturn ==
    /\ upc = "d_fan"
    /\ ~NotFound(stepIdx)
    /\ FanDone
    /\ upc' = "d_loop"
    /\ stepIdx' = stepIdx - 1
    /\ fanKind' = "none"
    /\ workers' = NoWorkers
    /\ UNCHANGED <<poolVars, orchVars, sequence, stepHosts, strays, options, hostIdx, running, rbIdx,
                   failedStep, upResult, trace, clients, rbSteps, downSteps, downCtx, upCtx>>

\* Down, lines 139-140: the deadline of context.WithTimeout passes while Down
\* runs.  Down never reads ctx.Done() or ctx.Err(): ctx only goes to
\* client.Execute, whose outcomes serviceWorker leaves open.
DownTimeout ==
    /\ upc \in {"d_loop", "d_fan"}
    /\ ~downCtx
    /\ downCtx' = TRUE
    /\ UNCHANGED <<poolVars, orchVars, sequence, stepHosts, strays, options, upc, stepIdx, hostIdx, running,
                   fanKind, workers, rbIdx, failedStep, upResult, trace, clients,
                   rbSteps, downSteps, upCtx>>

\* Down, lines 173-174: the loop is over, return nil.
DownDone ==
    /\ upc = "d_loop"
    /\ stepIdx = 0
    /\ upc' = "d_ret"
    /\ upResult' = "ok"
    /\ UNCHANGED <<poolVars, orchVars, sequence, stepHosts, strays, options, stepIdx, hostIdx, running,
                   fanKind, workers, rbIdx, failedStep, trace, clients, rbSteps,
                   downSteps, downCtx, upCtx>>

Down ==
    \/ DownCall
    \/ DownSkip
    \/ handleDown
    \/ handleDownReturn
    \/ DownTimeout
    \/ DownDone

handleUp == handleApplicationUp \/ handleDependencyUp \/ verifyDependencyRunning

Up == UpCall \/ UpStep \/ UpReturn

NextUp ==
    \/ Up
    \/ isServiceRunning
    \/ handleUp
    \/ \E h \in Hosts : serviceWorker(h)
    \/ serviceReturn
    \/ performHealthCheck
    \/ handleFailure
    \/ handleFailureNext
    \/ Down

SpecUp == InitUp /\ [][NextUp]_vars

\* Up has returned and a new Orchestrator, with a Manager of its own, is made
\* for the same environment and options; its Down is called.
DownAfterUp ==
    /\ upc = "ret"
    /\ upc' = "d_loop"
    /\ stepIdx' = Len(sequence)
    /\ clients' = {}
    /\ UNCHANGED <<poolVars, orchVars, sequence, stepHosts, strays, options, hostIdx, running, fanKind,
                   workers, rbIdx, failedStep, upResult, trace, rbSteps,
                   downSteps, downCtx, upCtx>>

\* Up and Down with the operation timeout of Up as well.
NextRun == NextUp \/ UpTimeout

SpecRun == InitUp /\ [][NextRun]_vars

\* startService, stopService or handleCommand finds a name of step.Hosts
\* that is not in env.Hosts and returns the error at once, without wg.Wait():
\* the goroutines it has spawned for the hosts before it are left running.
\* Up goes to handleFailure; handleFailure and Down log the error and go on.
hostNotFound ==
    /\ upc \in {"fan", "rbfan", "d_fan"}
    /\ LET i == IF upc = "rbfan" THEN rbIdx ELSE stepIdx
           phase == CASE upc = "fan" -> "up"
                      [] upc = "rbfan" -> "rollback"
                      [] OTHER -> "down"
       IN /\ NotFound(i)
          /\ strays' = strays \cup
                 {<<h, fanKind, i, phase>> : h \in {g \in Hosts : workers[g] = "run"}}
    /\ CASE upc = "fan" -> Fail
         [] upc = "rbfan" ->
              /\ upc' = "rb"
              /\ rbIdx' = rbIdx - 1
              /\ fanKind' = "none"
              /\ workers' = NoWorkers
              /\ UNCHANGED <<stepIdx, hostIdx, running, failedStep, upResult,
                             rbSteps, downSteps, downCtx, upCtx>>
         [] OTHER ->
              /\ upc' = "d_loop"
              /\ stepIdx' = stepIdx - 1
              /\ fanKind' = "none"
              /\ workers' = NoWorkers
              /\ UNCHANGED <<hostIdx, running, rbIdx, failedStep, upResult,
                             rbSteps, downSteps, downCtx, upCtx>>
    /\ UNCHANGED <<poolVars, orchVars, sequence, stepHosts, options, trace, clients>>

\* A goroutine that its fan-out did not wait for: GetClient, then Execute.
strayWorker ==
    /\ \E w \in strays :
         /\ strays' = strays \ {w}
         /\ \/ UNCHANGED <<trace, clients>>
            \/ SentBy(w[1], w[2], w[3], w[4])
    /\ UNCHANGED <<poolVars, orchVars, sequence, stepHosts, options, upc, stepIdx, hostIdx,
                   running, fanKind, workers, rbIdx, failedStep, upResult,
                   rbSteps, downSteps, downCtx, upCtx>>

\* An environment as LoadConfig returns it: the type and the hosts of a step
\* are whatever the file says.
InitCfg ==
    /\ InitWith({}, 0)
    /\ flagFile = Nobody
    /\ sequence \in UNION {[1..n -> StepTypes \cup {"unknown"}] : n \in 0..MaxCfgSteps}
    /\ stepHosts \in [1..Len(sequence) -> HostLists]
    /\ options \in [DryRun : BOOLEAN, HandleDeps : BOOLEAN, StopDeps : BOOLEAN]
    /\ UpIdle
    /\ PoolOff

NextCfg == NextUp \/ hostNotFound \/ strayWorker

SpecCfg == InitCfg /\ [][NextCfg]_vars

\* Up, and then Down on the environment Up has left.
NextUpDown == NextUp \/ DownAfterUp

SpecUpDown == InitUp /\ [][NextUpDown]_vars

----------------------------------------------------------------------------
(***************************************************************************)
(* Part III: the client pool.  Manager.GetClient (and GetClient of         *)
(* RealSSHFactory, which has the same shape) called by goroutines that run *)
(* concurrently: lock, look the host up, construct a client when the pool  *)
(* has none, store it, unlock.  Nothing in the repository calls CloseAll.  *)
(***************************************************************************)

\* The variables of Part II but the pool.
seqVars == <<sequence, stepHosts, strays, options, upc, stepIdx, hostIdx, running, fanKind,
             workers, rbIdx, failedStep, upResult, trace, rbSteps, downSteps, downCtx,
             upCtx>>

\* A pool that holds no client, and callers that have not called yet.
InitPool ==
    /\ InitWith({}, 0)
    /\ flagFile = Nobody
    /\ UpOff
    /\ mu = 0
    /\ getpc = [c \in Callers |-> "idle"]
    /\ getHost = [c \in Callers |-> 0]
    /\ got = [c \in Callers |-> <<0, 0>>]
    /\ dials = [h \in Hosts |-> 0]
    /\ dialFailed = [h \in Hosts |-> FALSE]
    /\ getsLeft = MaxGets

\* A goroutine calls GetClient for a host.
GetCall(c) ==
    /\ getpc[c] = "idle"
    /\ getsLeft > 0
    /\ getsLeft' = getsLeft - 1
    /\ \E h \in Hosts : getHost' = [getHost EXCEPT ![c] = h]
    /\ getpc' = [getpc EXCEPT ![c] = "lock"]
    /\ UNCHANGED <<orchVars, seqVars, clients, mu, got, dials, dialFailed>>

\* GetClient that takes the lock as a reader: other callers are let in.
GetLockShared(c) ==
    /\ getpc[c] = "lock"
    /\ mu' = c
    /\ getpc' = [getpc EXCEPT ![c] = "look"]
    /\ UNCHANGED <<orchVars, seqVars, clients, getHost, got, dials, dialFailed, getsLeft>>

\* GetClient: m.mu.Lock().
GetLock(c) ==
    /\ getpc[c] = "lock"
    /\ mu = 0
    /\ mu' = c
    /\ getpc' = [getpc EXCEPT ![c] = "look"]
    /\ UNCHANGED <<orchVars, seqVars, clients, getHost, got, dials, dialFailed, getsLeft>>

\* GetClient: the lookup in m.clients; a client found is returned (the
\* deferred Unlock runs), otherwise the construction begins.
GetLookup(c) ==
    /\ getpc[c] = "look"
    /\ IF getHost[c] \in clients
       THEN /\ got' = [got EXCEPT ![c] = <<getHost[c], dials[getHost[c]]>>]
            /\ getpc' = [getpc EXCEPT ![c] = "idle"]
            /\ mu' = 0
       ELSE /\ getpc' = [getpc EXCEPT ![c] = "dial"]
            /\ UNCHANGED <<got, mu>>
    /\ UNCHANGED <<orchVars, seqVars, clients, getHost, dials, dialFailed, getsLeft>>

\* GetClient: the key is read and parsed and the host dialled.  On an error
\* GetClient returns it and stores nothing; otherwise it stores the new
\* client in m.clients and returns it.  The deferred Unlock runs.
GetDial(c) ==
    /\ getpc[c] = "dial"
    /\ \/ /\ dialFailed' = [dialFailed EXCEPT ![getHost[c]] = TRUE]
          /\ got' = [got EXCEPT ![c] = <<getHost[c], 0>>]
          /\ UNCHANGED <<clients, dials>>
       \/ /\ dials' = [dials EXCEPT ![getHost[c]] = @ + 1]
          /\ clients' = clients \cup {getHost[c]}
          /\ got' = [got EXCEPT ![c] = <<getHost[c], dials[getHost[c]] + 1>>]
          /\ UNCHANGED dialFailed
    /\ getpc' = [getpc EXCEPT ![c] = "idle"]
    /\ mu' = 0
    /\ UNCHANGED <<orchVars, seqVars, getHost, getsLeft>>

GetClient(c) == GetLock(c) \/ GetLookup(c) \/ GetDial(c)

NextPool == \E c \in Callers : GetCall(c) \/ GetClient(c)

SpecPool == InitPool /\ [][NextPool]_vars

----------------------------------------------------------------------------
(***************************************************************************)
(* Properties of BringUp / BringDown / monitorApps / rollback and the flag *)
(***************************************************************************)

\* The call of o took the flag and has not given it back.
PastAcquire(o) ==
    /\ ~dryRun[o]
    /\ pc[o] \notin {"idle", "acq_lock", "acq_file", "ret"}

\* The calling goroutine of o is about to send a command to a host.
CallerPoised(o) ==
    /\ ~dryRun[o]
    /\ \/ pc[o] \in {"precheck", "prestop", "start", "postcheck",
                     "d_stop", "d_check"}
       \/ pc[o] = "rb" /\ idx[o] >= 1 /\ appStates[o][idx[o]]

\* A monitor of o is in its range over o.appStates with a check still to run.
MonitorPoised(o) ==
    \E i \in 1..Len(mons[o]) :
        /\ mons[o][i].pc = "tick"
        /\ Started(o) \ mons[o][i].seen # {}

\* The apps rollback has reached, in order.
RbApps(o) == [i \in 1..Len(rbLog[o]) |-> rbLog[o][i][1]]

Reverse(s) == [i \in 1..Len(s) |-> s[Len(s) + 1 - i]]

\* The subsequence of s made of the members of S.
RECURSIVE Restrict(_, _)
Restrict(s, S) ==
    IF s = <<>> THEN <<>>
    ELSE IF Head(s) \in S THEN <<Head(s)>> \o Restrict(Tail(s), S)
    ELSE Restrict(Tail(s), S)

\* C1: of two operations (BringUp or BringDown) on the same environment by
\* orchestrators with FlagManagers of their own, at most one is past the
\* acquisition of the flag at any time, and the one turned away with the
\* contention error has sent no command to any host.
C1_OneOperationAtATime ==
    /\ Cardinality({o \in Orchs : PastAcquire(o)}) <= 1
    /\ \A o \in Orchs :
         pc[o] = "ret" /\ result[o] = "contention" => ~issued[o]

\* One operation is running and has sent a command while the other has been
\* turned away with the contention error.
C1_Witness ==
    \E o, q \in Orchs :
        /\ o # q
        /\ PastAcquire(o) /\ issued[o]
        /\ pc[q] = "ret" /\ result[q] = "contention"

\* C2: no command of a non-dry-run BringUp -- sent by the caller or by the
\* monitor it spawned -- goes out while the orchestrator does not hold the
\* flag.
C2_CommandsUnderFlag ==
    \A o \in Orchs : CallerPoised(o) \/ MonitorPoised(o) => Held(o)

C6_RollbackOnCancel ==
    \A o \in Orchs :
        pc[o] = "ret" /\ op[o] = "up" /\ result[o] = "canceled"
        => \A a \in Range(startLog[o]) : <<a, TRUE>> \in Range(rbLog[o])

\* C8: rollback goes through the apps marked started, each once, last to
\* first -- the reverse of the order BringUp started them in -- and a
\* GetClient error or a failing stop for one of them does not keep it from
\* the others.
C8_RollbackReverseOrder ==
    \A o \in Orchs :
        pc[o] = "rb" \/ result[o] = "rollback"
        => /\ Len(rbLog[o]) = Cardinality(Range(RbApps(o)))
           /\ \A i, j \in 1..Len(rbLog[o]) : i < j => RbApps(o)[i] > RbApps(o)[j]
           /\ Range(RbApps(o)) = {a \in rbDomain[o] : a > idx[o]}
           /\ Range(startLog[o]) \subseteq rbDomain[o]
           /\ result[o] = "rollback"
              => Restrict(RbApps(o), Range(startLog[o])) = Reverse(startLog[o])

\* Rollback is over: GetClient failed for the last app, and the stop of the
\* first one was still sent.
C8_Witness ==
    \E o \in Orchs :
        /\ result[o] = "rollback"
        /\ Len(startLog[o]) = NApps
        /\ Len(rbLog[o]) = NApps
        /\ ~rbLog[o][1][2]
        /\ rbLog[o][NApps][2]

\* C9: a BringUp whose monitor published a failure before the caller left
\* its last select on the channel runs rollback and returns its error.
C9_MonitorFailureRollsBack ==
    \A o \in Orchs :
        pc[o] = "ret" /\ op[o] = "up" /\ published[o]
        => /\ result[o] = "rollback"
           /\ Range(RbApps(o)) = rbDomain[o]

\* C10: once BringUp has returned to its deferred Release, no monitor
\* goroutine of the orchestrator is still running.
C10_MonitorExitsBeforeRelease ==
    \A o \in Orchs :
        Leaving(o) \/ pc[o] = "idle" => mons[o] = <<>>

\* C11: a BringUp called with a context that is already done, once it has
\* the flag, returns the cancellation error, has sent no command, has marked
\* no app started and leaves no flag file.
C11_CancelledBeforeCall ==
    \A o \in Orchs :
        (/\ pc[o] = "ret" /\ op[o] = "up"
         /\ preDone[o] /\ result[o] # "contention")
        => /\ result[o] = "canceled"
           /\ ~issued[o]
           /\ startLog[o] = <<>>
           /\ ~dryRun[o] => flagFile = Nobody

\* C12: a dry-run BringUp, rollback included, sends no command to a host,
\* takes neither the lock nor the flag file, never enters Acquire or Release
\* and runs no monitor.
C12_DryRunTouchesNothing ==
    \A o \in Orchs :
        dryRun[o] =>
            /\ ~issued[o]
            /\ osLock # o /\ flagFile # o
            /\ pc[o] \notin {"acq_lock", "acq_file", "rel_remove", "rel_unlock"}
            /\ mons[o] = <<>>

\* A dry-run BringUp has marked an app started, failed to get a client for
\* the next one, and its rollback has called RunCommand for the stop.
C12_Witness ==
    \E o \in Orchs :
        /\ dryRun[o] /\ op[o] = "up"
        /\ pc[o] = "ret" /\ result[o] = "rollback"
        /\ \E a \in Apps : <<a, TRUE>> \in Range(rbLog[o])

----------------------------------------------------------------------------
(***************************************************************************)
(* Properties of Up over the step sequence                                 *)
(***************************************************************************)

\* The handler of step i has returned nil.
HandlerDone(i) ==
    \/ i < stepIdx
    \/ i = stepIdx /\ upc = "health"

\* C4: a non-dry-run Up sends the start command of every application step
\* whose handler returned without error, whatever the pre-check found -- after
\* the stop command when the application was found running.
C4_ApplicationAlwaysStarted ==
    \A i \in Steps :
        sequence[i] = "application" /\ ~options.DryRun /\ HandlerDone(i)
        => <<"start", i, "up">> \in Range(trace)

\* C5: when the health check that follows the start of step i fails, the
\* rollback calls stopService for step i itself.
C5_FailedStepRolledBack ==
    /\ upc = "ret"
    /\ upResult = "failed"
    /\ <<"start", failedStep, "up">> \in Range(trace)
    /\ <<"health", failedStep, "up">> \in Range(trace)
    => failedStep \in Range(rbSteps)

\* C7: without HandleDeps, Up sends no stop command for a dependency step,
\* rollback included; and when the verification of a dependency fails, Up
\* returns an error having sent no start command for it and no command for
\* any later step.
C7_UnmanagedDependencyUntouched ==
    ~options.HandleDeps =>
        \A i \in Steps :
            sequence[i] = "dependency" =>
                /\ \A p \in {"up", "rollback"} : <<"stop", i, p>> \notin Range(trace)
                /\ <<"start", i, "up">> \notin Range(trace)
                /\ failedStep = i =>
                     \A e \in Range(trace) : e[3] = "up" => e[2] <= i

\* Command kind went out for step i, and later command then.
Followed(i, kind, then) ==
    \E j, k \in 1..Len(trace) :
        /\ j < k
        /\ trace[j] = <<kind, i, "up">>
        /\ trace[k] = <<then, i, "up">>

\* C13: when a non-dry-run Up returns success, the steps were gone through
\* once, in order, each with a command sent, and every application step and
\* every dependency step under HandleDeps had its start command followed by
\* a health check (which passed, or Up would have failed).
C13_SuccessMeansStartedAndHealthy ==
    upc = "ret" /\ upResult = "ok" /\ ~options.DryRun
    => /\ \A j, k \in 1..Len(trace) : j < k => trace[j][2] <= trace[k][2]
       /\ \A i \in Steps :
            /\ \E e \in Range(trace) : e[2] = i
            /\ HealthChecked(i) => Followed(i, "start", "health")

\* Down has been called and has not gone past step i yet.
DownReached(i) ==
    \/ upc = "d_ret"
    \/ upc = "d_loop" /\ i > stepIdx
    \/ upc = "d_fan" /\ i >= stepIdx

\* C14: Down goes through the steps last to first and calls stopService for
\* every application step, and for a dependency step only under StopDeps; the
\* only commands it sends are the stop commands of those steps, in that
\* order; it returns nil.  On <<dependency, application, command>> without
\* StopDeps the application is the one step stopped.
C14_DownStopsInReverse ==
    upc \in {"d_loop", "d_fan", "d_ret"}
    => /\ \A j, k \in 1..Len(downSteps) : j < k => downSteps[j] > downSteps[k]
       /\ Range(downSteps) =
            {i \in Steps :
               /\ DownReached(i)
               /\ \/ sequence[i] = "application"
                  \/ sequence[i] = "dependency" /\ options.StopDeps}
       /\ \A e \in Range(trace) :
            e[1] = "stop" /\ e[3] = "down" /\ e[2] \in Range(downSteps)
       /\ \A j, k \in 1..Len(trace) : j < k => trace[j][2] > trace[k][2]
       /\ upc = "d_ret" => upResult = "ok"
       /\ (/\ upc = "d_ret"
           /\ sequence = <<"dependency", "application", "command">>
           /\ ~options.StopDeps)
          => downSteps = <<2>>

\* Down has returned from <<dependency, application, command>> without
\* StopDeps, having sent the application's stop command and nothing else.
C14_Witness ==
    /\ upc = "d_ret"
    /\ upResult = "ok"
    /\ sequence = <<"dependency", "application", "command">>
    /\ ~options.StopDeps
    /\ trace = <<<<"stop", 2, "down">>>>

----------------------------------------------------------------------------
\* The apps BringDown's loop has reached, in order.
DownApps(o) == [k \in 1..Len(downLog[o]) |-> downLog[o][k][1]]

\* C15: in BringDown a stop command that fails, or a check that finds the
\* application still running, neither ends the loop nor makes the call fail:
\* the loop reaches the applications in reverse configuration order, the
\* only result other than success is the cancellation of the caller's
\* context, and a call that returned success has reached every application,
\* whatever happened to the stops and checks on the way.
C15_DownContinuesPastFailure ==
    \A o \in Orchs :
        op[o] = "down" =>
            /\ \A k \in 1..Len(downLog[o]) : DownApps(o)[k] = NApps + 1 - k
            /\ downErr[o] # 0 => <<downErr[o], TRUE>> \in Range(downLog[o])
            /\ result[o] \in {"none", "contention", "canceled", "ok"}
            /\ result[o] = "canceled" => ctx[o]
            /\ result[o] = "ok" => Len(downLog[o]) = NApps
            /\ (pc[o] = "d_select" /\ ~ctx[o]) => Len(downLog[o]) = NApps - idx[o]

\* A BringDown whose first stop failed (or left the application running) has
\* gone on to send the stop of the last application and returned success.
C15_Witness ==
    \E o \in Orchs :
        /\ op[o] = "down"
        /\ pc[o] = "ret"
        /\ result[o] = "ok"
        /\ downErr[o] = NApps
        /\ downLog[o][NApps] = <<1, TRUE>>

\* C16: Down looks at the cancellation of its context between two steps:
\* when the context is done at the head of the loop with steps left, Down
\* calls handleDown for no further step and returns the context's error.
C16_DownObservesCancellation ==
    [][(downCtx /\ upc = "d_loop" /\ stepIdx >= 1)
       => (upc' = "d_ret" /\ upResult' = "canceled")]_vars

----------------------------------------------------------------------------
(***************************************************************************)
(* Properties of FlagManager called directly                               *)
(***************************************************************************)

\* The step is the return of the call of which by manager o.
Returns(o, which) == op[o] = which /\ pc[o] # "ret" /\ pc'[o] = "ret"

\* C17: Acquire is all or nothing.  When an Acquire returns, either it
\* succeeded and its manager holds the lock and its flag file exists, or it
\* failed, and then it has left no flag file of its own that was not there
\* and a manager that held the flag still holds the lock and the file.
C17_AcquireAllOrNothing ==
    [][\A o \in Orchs :
          Returns(o, "acquire") =>
              IF result'[o] = "ok"
              THEN Held(o)'
              ELSE /\ flagFile # o => flagFile' # o
                   /\ \A m \in Orchs : Held(m) => Held(m)']_vars

\* C18: Release tries both halves whatever happens to either.  A Release
\* returns only after Unlock was tried, so its manager's lock is gone unless
\* Unlock itself failed, even when os.Remove failed; and when Unlock fails
\* the manager's flag file is gone all the same.
C18_ReleaseTriesBothHalves ==
    [][\A o \in Orchs :
          Returns(o, "release") =>
              /\ pc[o] = "rel_unlock"
              /\ osLock' = o => (osLock = o /\ result'[o] = "error")
              /\ pc[o] = "rel_unlock" => flagFile' # o]_vars

\* C19: Release by a manager that does not hold the flag changes nothing.
\* No step of such a Release takes the lock or the flag file away from a
\* manager that holds the flag, and with no flag file to remove the call
\* returns no error.
C19_ReleaseWithoutAcquireIsNoOp ==
    [][\A o \in Orchs :
          (op[o] = "release" /\ pc'[o] # pc[o] /\ osLock # o) =>
              /\ \A m \in Orchs \ {o} : Held(m) => Held(m)'
              /\ (Returns(o, "release") /\ flagFile = Nobody)
                   => result'[o] = "ok"]_vars

\* C20: Acquire and then Release bring the flag back to its free state.
\* When Acquire returns success the flag file is there and the lock is its
\* manager's; when the Release of the manager that holds the lock returns
\* success the flag file is gone and the lock is free; and an Acquire is
\* turned away as "another operation is in progress" only when the flag is
\* not free, so that from the free state the Acquire of any manager goes
\* through.
C20_AcquireReleaseRoundTrip ==
    [][\A o \in Orchs :
          /\ (Returns(o, "acquire") /\ result'[o] = "ok")
               => (flagFile' = o /\ osLock' = o)
          /\ (Returns(o, "release") /\ result'[o] = "ok" /\ osLock = o)
               => (flagFile' = Nobody /\ osLock' = Nobody)
          /\ (Returns(o, "acquire") /\ result'[o] = "contention")
               => (osLock \notin {Nobody, o} \/ flagFile # Nobody)
          /\ (op[o] = "acquire" /\ pc[o] = "acq_lock" /\ pc'[o] = "acq_file")
               => osLock' = o]_vars

\* One manager has acquired and released the flag, after which the other
\* manager has acquired it and released it in its turn.
C20_Witness ==
    /\ Len(flagLog) = 4
    /\ flagLog[1] = <<"o1", "acquire", "ok">>
    /\ flagLog[2] = <<"o1", "release", "ok">>
    /\ flagLog[3] = <<"o2", "acquire", "ok">>
    /\ flagLog[4] = <<"o2", "release", "ok">>
    /\ flagFile = Nobody
    /\ osLock = Nobody

----------------------------------------------------------------------------
\* C21: handleFailure sends nothing for a command step.  The steps it calls
\* stopService for are never command steps, every command sent during the
\* rollback is the stop of a step that is not a command step, and the
\* command of a command step only ever goes out in Up's own loop.
C21_RollbackSkipsCommandSteps ==
    /\ \A k \in 1..Len(rbSteps) : sequence[rbSteps[k]] # "command"
    /\ \A k \in 1..Len(trace) :
          /\ trace[k][3] = "rollback" =>
                (trace[k][1] = "stop" /\ sequence[trace[k][2]] # "command")
          /\ trace[k][1] = "run" => trace[k][3] = "up"
          /\ sequence[trace[k][2]] = "command" =>
                (trace[k][1] = "run" /\ trace[k][3] = "up")

\* The command of a command step went out, a later step failed, and the
\* rollback has stopped a step that precedes the command step and returned.
C21_Witness ==
    /\ upc = "ret"
    /\ upResult = "failed"
    /\ \E i \in Steps :
          /\ sequence[i] = "command"
          /\ i < failedStep
          /\ <<"run", i, "up">> \in Range(trace)
          /\ \E j \in 1..(i - 1) : <<"stop", j, "rollback">> \in Range(trace)

\* C22: the rollback does not run under the context of the Up that failed.
\* No stop command sent by handleFailure is cut short because Up's context
\* is done.
C22_RollbackOutlivesDeadline ==
    upc = "rbfan" => \A h \in Hosts : workers[h] # "cut"

\* C23: when Up or Down returns, the clients that Manager.GetClient put in
\* the pool during the run have been closed and the pool is empty.
C23_PoolClosedOnReturn ==
    upc \in {"ret", "d_ret"} => clients = {}

\* The steps for which a command of the given kind went out in the given
\* phase, in order.
RECURSIVE StepsOf(_, _, _)
StepsOf(t, kind, phase) ==
    IF t = <<>> THEN <<>>
    ELSE IF Head(t)[1] = kind /\ Head(t)[3] = phase
         THEN <<Head(t)[2]>> \o StepsOf(Tail(t), kind, phase)
         ELSE StepsOf(Tail(t), kind, phase)

\* C24: after an Up that succeeded, a Down on the same environment with
\* StopDeps equal to HandleDeps stops the steps that Up started, in the
\* reverse of the order in which Up started them.
C24_DownMirrorsUp ==
    (/\ upc = "d_ret"
     /\ ~options.DryRun
     /\ options.HandleDeps = options.StopDeps
     /\ failedStep = 0
     /\ \E k \in 1..Len(trace) : trace[k][3] = "up")
    => downSteps = Reverse(StepsOf(trace, "start", "up"))

\* C25: a sequence with a step of unknown type is turned down before
\* anything is done.  Up sends no command for any step of such a sequence,
\* in its loop or in a rollback, calls stopService for none, and does not
\* return success.
C25_UnknownTypeRejectedAtEntry ==
    (\E i \in Steps : sequence[i] \notin StepTypes) =>
        /\ \A k \in 1..Len(trace) : trace[k][3] \notin {"up", "rollback"}
        /\ rbSteps = <<>>
        /\ ~(upc = "ret" /\ upResult = "ok")

\* C26: a sequence with a step that has no hosts is turned down as a
\* configuration error.  Up never takes such a step for started or healthy,
\* that is, never goes past it, and never returns success.
C26_EmptyHostsRejected ==
    \A i \in Steps :
        stepHosts[i] = <<>> =>
            /\ ~(upc = "ret" /\ upResult = "ok")
            /\ upc \in {"loop", "check", "checked", "fan", "health"} => stepIdx <= i

\* C30: a fan-out returns only when every goroutine it has spawned is done,
\* also when it returns because a host is not in env.Hosts: no goroutine
\* outlives the startService, stopService or handleCommand that spawned it.
C30_FanOutWaitsForWorkers ==
    strays = {}

----------------------------------------------------------------------------
\* C27: BringDown on an orchestrator whose FlagManager already holds the
\* flag, Acquire having been the one call made on it before, returns no
\* error, leaves every application marked as stopped and the flag file
\* removed.
C27_BringDownWithFlagHeld ==
    \A o \in Orchs :
        (/\ ~dryRun[o]
         /\ flagLog = <<<<o, "acquire", "ok">>>>
         /\ calls = MaxCalls - 2
         /\ op[o] = "down"
         /\ pc[o] = "ret")
        => /\ result[o] = "ok"
           /\ \A a \in Apps : ~appStates[o][a]
           /\ flagFile = Nobody


\* C28: run state belongs to one call. When a BringUp starts its work (the
\* flag is taken, the monitor not yet spawned) no app is marked started and
\* the monitor channel is empty; rollback stops only apps that this call
\* started; and a call never finds in the channel an error that a monitor of
\* an earlier call published.
C28_RunStateOwnedByOneCall ==
    \A o \in Orchs :
        /\ (op[o] = "up" /\ pc[o] = "spawn")
           => /\ \A a \in Apps : ~appStates[o][a]
              /\ monitorChan[o] = <<>>
        /\ op[o] = "up"
           => /\ \A i \in 1..Len(rbLog[o]) :
                    rbLog[o][i][2] => rbLog[o][i][1] \in Range(startLog[o])
              /\ \A i \in 1..Len(monitorChan[o]) : monitorChan[o][i]


\* C29: Up works through the steps one at a time, in the declared order.
\* The commands Up sends appear step by step, and within a step in the order
\* check, stop, start, health check; while Up runs, no command of a step
\* beyond the one it is at has gone out; and a step that failed is the last
\* one Up sent a command for.
C29_StepsStrictlySerial ==
    LET rank == [k \in {"check", "run", "stop", "start", "health"} |->
                    CASE k \in {"check", "run"} -> 1
                      [] k = "stop" -> 2
                      [] k = "start" -> 3
                      [] OTHER -> 4]
    IN  /\ \A j, k \in 1..Len(trace) :
              (j < k /\ trace[j][3] = "up" /\ trace[k][3] = "up")
              => \/ trace[j][2] < trace[k][2]
                 \/ /\ trace[j][2] = trace[k][2]
                    /\ rank[trace[j][1]] < rank[trace[k][1]]
        /\ \A k \in 1..Len(trace) :
              trace[k][3] = "up"
              => /\ upc \notin {"d_loop", "d_fan", "d_ret"} => trace[k][2] <= stepIdx
                 /\ failedStep # 0 => trace[k][2] <= failedStep

\* Up has returned after the second of three steps failed: every command of
\* the first step went out before the two of the second, none of the third
\* did, and the rollback stopped the first.
C29_Witness ==
    /\ upc = "ret"
    /\ upResult = "failed"
    /\ Len(sequence) = 3
    /\ failedStep = 2
    /\ trace = << <<"check", 1, "up">>, <<"stop", 1, "up">>, <<"start", 1, "up">>,
                  <<"health", 1, "up">>, <<"check", 2, "up">>, <<"start", 2, "up">>,
                  <<"stop", 1, "rollback">> >>

----------------------------------------------------------------------------
\* C31: rollback starts only after the monitor has been cancelled and has
\* exited.  While rollback runs, and until the BringUp that ran it has
\* returned, the call's context is cancelled and no monitor goroutine of the
\* orchestrator is left, so no check command of a monitor is in flight
\* together with a stop command of the rollback.
C31_RollbackAfterMonitorExit ==
    \A o \in Orchs :
        (pc[o] = "rb" \/ rbLog[o] # <<>>)
        => /\ ctx[o]
           /\ mons[o] = <<>>

\* The monitor of the call published a failure, BringUp received it,
\* cancelled, waited, and the rollback has sent a stop command.
C31_Witness ==
    \E o \in Orchs :
        /\ pc[o] = "rb"
        /\ published[o]
        /\ monitorChan[o] = <<>>
        /\ \E k \in 1..Len(rbLog[o]) : rbLog[o][k][2]

\* C32: the monitor holds o.mutex only to copy the started set.  While
\* BringUp stands at the lock it takes to record a newly started app, no
\* monitor holds o.mutex with a check command still to run, or with the
\* error of one still to send.
C32_MonitorLockOnlyForSnapshot ==
    \A o \in Orchs :
        pc[o] = "mark"
        => \A i \in 1..Len(mons[o]) :
              /\ mons[o][i].pc # "send"
              /\ mons[o][i].pc = "tick" => Started(o) \subseteq mons[o][i].seen

\* C33: publishing a failure never blocks the monitor, and BringUp and the
\* monitor never wait for each other.  A monitor that has an error to send
\* finds room in monitorChan; in particular no BringUp or BringDown stands at
\* o.mutex.Lock() or at o.wg.Wait() while a monitor, holding o.mutex, is
\* blocked on a full monitorChan that only that call could empty.
C33_MonitorSendNeverBlocks ==
    \A o \in Orchs :
        \A i \in 1..Len(mons[o]) :
            mons[o][i].pc = "send" => Len(monitorChan[o]) < 1

\* C34: the wait before the health check observes cancellation.  When Up's
\* context is done at the end of the wait of a step, Up goes to its failure
\* handling and sends neither the health check of that step nor a command of
\* a later step.
C34_WaitObservesCancellation ==
    [][(upCtx /\ upc = "health" /\ hostIdx = 1)
       => (trace' = trace /\ upc' = "rb")]_vars

\* C35: in dry-run the running check of an application step never answers
\* "already running": handleApplicationUp never enters stopService and
\* enters startService for every application step.
C35_DryRunNeverAlreadyRunning ==
    (options.DryRun /\ upc \in {"checked", "fan"} /\ sequence[stepIdx] = "application")
    => /\ upc = "checked" => running # "yes"
       /\ upc = "fan" => fanKind = "start"

\* C36: a start fan-out of step i that failed after a start command went
\* out leaves step i outside the rollback.  Up fails, the rollback sends a
\* stop command only for steps before i that Up had started, and none for
\* step i.
C36_PartialStartNotRolledBack ==
    (/\ failedStep # 0
     /\ \E k \in 1..Len(trace) :
           /\ trace[k] = <<"start", failedStep, "up">>
           /\ \A j \in (k + 1)..Len(trace) : trace[j][3] = "rollback")
    => /\ failedStep \notin Range(rbSteps)
       /\ upc = "ret" => upResult = "failed"
       /\ \A j \in 1..Len(trace) :
             trace[j][3] = "rollback"
             => /\ trace[j][2] < failedStep
                /\ <<"start", trace[j][2], "up">> \in Range(trace)

----------------------------------------------------------------------------
(***************************************************************************)
(* Properties of the client pool                                           *)
(***************************************************************************)

\* C37: under any interleaving of concurrent GetClient calls the pool
\* constructs at most one client per host, and every caller that gets a
\* client for a host gets that one.  A construction is under way only in the
\* caller that holds the lock and only for a host the pool has no client
\* for; a construction that failed leaves the pool without a client for the
\* host, so the next GetClient for it constructs again.
C37_OneClientPerHost ==
    /\ \A h \in Hosts :
          /\ dials[h] <= 1
          /\ h \in clients <=> dials[h] = 1
    /\ \A c \in Callers :
          /\ got[c][2] # 0 => (got[c][2] = 1 /\ got[c][1] \in clients)
          /\ getpc[c] \in {"look", "dial"} => mu = c
          /\ getpc[c] = "dial" => getHost[c] \notin clients

\* A construction for a host failed, a later one succeeded, and both callers
\* have been handed the client it made.
C37_Witness ==
    \E h \in Hosts :
        /\ dialFailed[h]
        /\ dials[h] = 1
        /\ \A c \in Callers : getpc[c] = "idle" /\ got[c] = <<h, 1>>

----------------------------------------------------------------------------
\* C38: once rollback has returned, no application is marked started in
\* o.appStates, whatever became of the stop commands and of the GetClient
\* calls before them.
C38_RollbackClearsStarted ==
    \A o \in Orchs :
        result[o] = "rollback" => \A a \in Apps : ~appStates[o][a]

----------------------------------------------------------------------------
\* C39: rollback always ends in an error.  A BringUp that leaves rollback
\* returns "rollback completed due to failure", also when every stop command
\* went out, and that stays its result until it has returned to its caller.
C39_RollbackAlwaysError ==
    [][\A o \in Orchs :
          /\ (pc[o] = "rb" /\ pc'[o] # "rb") => result'[o] = "rollback"
          /\ (result[o] = "rollback" /\ pc'[o] # "idle") => result'[o] = "rollback"]_vars

\* BringUp has returned from a rollback that reached every application and
\* sent the stop command of each.
C39_Witness ==
    \E o \in Orchs :
        /\ pc[o] = "ret"
        /\ result[o] = "rollback"
        /\ Len(rbLog[o]) = NApps
        /\ \A k \in 1..Len(rbLog[o]) : rbLog[o][k][2]
        /\ \A a \in Apps : ~appStates[o][a]

\* C40: the error of a failed BringUp tells a rollback in which a stop
\* failed from one in which every stop succeeded.  "rollback completed due
\* to failure" is what BringUp returns only after a rollback that sent the
\* stop command of every application it reached.
C40_RollbackIncompleteDistinguished ==
    \A o \in Orchs :
        result[o] = "rollback" => \A k \in 1..Len(rbLog[o]) : rbLog[o][k][2]

====
